---- MODULE Spec2Model ----
(***************************************************************************)
(* Model of convert_controllers.py: the three-stage regex rewrite of       *)
(* controller methods (convert_method, convert_validation_patterns, the    *)
(* fix_try_blocks substitution of process_file) and the main loop over     *)
(* the configured files.                                                   *)
(*                                                                         *)
(* A source text is a sequence of lexemes; each lexeme is the literal      *)
(* string it stands for, so the text of a file is the concatenation of     *)
(* its lexemes.  A lexeme is a space, a line terminator, a word, one of    *)
(* the characters the patterns tell apart ( ) { } ; : = or a run of        *)
(* characters the patterns only ever match as a whole                      *)
(* ("this.asyncHandler", "Promise<void>", ...).  The character classes of  *)
(* the regular expressions are predicates on lexemes and every pattern is  *)
(* matched the way Python's backtracking matcher matches it: leftmost      *)
(* start, greedy or lazy quantifiers, non-overlapping substitution.        *)
(***************************************************************************)
EXTENDS Integers, Sequences, FiniteSets, TLC

VARIABLES fs, run, pc, idx, content, original_content, updated_files, out, opened

vars == <<fs, run, pc, idx, content, original_content, updated_files, out, opened>>

----------------------------------------------------------------------------
(* Lexemes and character classes                                           *)

SP == " "
NL == "\n"

\* \s : the whitespace lexemes
IsSpace(t) == t \in {SP, NL}

\* \w+ : the lexemes made of word characters only
WordToks == {"a", "b", "req", "res", "async", "try", "f", "g", "if", "x", "y",
             "return", "e", "end", "body", "S", "o", "class", "A"}

IsWord(t) == t \in WordToks

Lit(s, i, t) == i >= 1 /\ i <= Len(s) /\ s[i] = t

\* the first index >= i that does not hold whitespace (Len(s)+1 if none): greedy \s*
RECURSIVE SkipWS(_, _)
SkipWS(s, i) == IF i <= Len(s) /\ IsSpace(s[i]) THEN SkipWS(s, i + 1) ELSE i

\* the first index >= i that does not hold a word lexeme: greedy \w+
RECURSIVE SkipWord(_, _)
SkipWord(s, i) == IF i <= Len(s) /\ IsWord(s[i]) THEN SkipWord(s, i + 1) ELSE i

Min(S) == CHOOSE x \in S : \A y \in S : x <= y

\* the first index >= i that holds lexeme t (Len(s)+1 if none): greedy [^t]*
SkipTo(s, i, t) ==
  LET at == {n \in i..Len(s) : s[n] = t} IN
  IF at = {} THEN Len(s) + 1 ELSE Min(at)

\* the last index in lo..hi-1 that holds a line terminator, 0 if none
RECURSIVE LastNL(_, _, _)
LastNL(s, lo, hi) ==
  IF hi <= lo THEN 0
  ELSE IF s[hi - 1] = NL THEN hi - 1 ELSE LastNL(s, lo, hi - 1)

Slice(s, lo, hi) == IF hi < lo THEN <<>> ELSE SubSeq(s, lo, hi)

Spaces(n) == [j \in 1..n |-> SP]

NoMatch == [ok |-> FALSE]

----------------------------------------------------------------------------
(* convert_method                                                          *)

\* \):\s*Promise<void>\s*=>\s*\{ at e: the index after the match, 0 if none
SigTail(s, e) ==
  IF Lit(s, e, ")") /\ Lit(s, e + 1, ":")
  THEN LET p1 == SkipWS(s, e + 2) IN
       IF Lit(s, p1, "Promise<void>")
       THEN LET p2 == SkipWS(s, p1 + 1) IN
            IF Lit(s, p2, "=>")
            THEN LET p3 == SkipWS(s, p2 + 1) IN
                 IF Lit(s, p3, "{") THEN p3 + 1 ELSE 0
            ELSE 0
       ELSE 0
  ELSE 0

\* (.*?) without DOTALL followed by the tail: the least e >= p, reached over lexemes
\* other than the line terminator, at which the tail matches; 0 if none
LazyParams(s, p) ==
  LET ends == {e \in p..SkipTo(s, p, NL) : SigTail(s, e) # 0} IN
  IF ends = {} THEN 0 ELSE Min(ends)

\* (\s*)(\w+)\s*=\s*this\.asyncHandler\(async\s*\((.*?)\):\s*Promise<void>\s*=>\s*\{
SigMatchAt(s, i) ==
  LET j == SkipWS(s, i)
      k == SkipWord(s, j)
      q == SkipWS(s, k)
      h == SkipWS(s, q + 1)
      a == SkipWS(s, h + 3)
      e == LazyParams(s, a + 1)
  IN IF /\ k > j
        /\ Lit(s, q, "=")
        /\ Lit(s, h, "this.asyncHandler") /\ Lit(s, h + 1, "(") /\ Lit(s, h + 2, "async")
        /\ Lit(s, a, "(")
        /\ e # 0
     THEN [ok |-> TRUE, start |-> i, end |-> SigTail(s, e),
           indent |-> Slice(s, i, j - 1), method_name |-> Slice(s, j, k - 1),
           params |-> Slice(s, a + 1, e - 1)]
     ELSE NoMatch

replace_method(match) ==
  match.indent \o <<"async", SP>> \o match.method_name \o <<"(">> \o match.params
    \o <<")", ":", SP, "Promise<void>", SP, "{", NL>>
    \o match.indent \o <<SP, SP, "try", SP, "{">>

\* the leftmost match that starts at pos or later
NextSigMatch(s, pos) ==
  LET starts == {i \in pos..Len(s) : SigMatchAt(s, i).ok} IN
  IF starts = {} THEN NoMatch ELSE SigMatchAt(s, Min(starts))

\* re.sub: leftmost match from pos on, the text before it kept, then on from its end
RECURSIVE SubSignature(_, _)
SubSignature(s, pos) ==
  LET m == NextSigMatch(s, pos) IN
  IF m.ok THEN Slice(s, pos, m.start - 1) \o replace_method(m) \o SubSignature(s, m.end)
  ELSE Slice(s, pos, Len(s))

\* the closing pattern without its $ anchor: \s*\}\);\s*
CloseMatchAtUnanchored(s, i) ==
  LET j == SkipWS(s, i) IN
  IF Lit(s, j, "}") /\ Lit(s, j + 1, ")") /\ Lit(s, j + 2, ";")
  THEN [ok |-> TRUE, start |-> i, end |-> SkipWS(s, j + 3)]
  ELSE NoMatch

\* \s*\}\);\s*$ with MULTILINE: $ holds at the end of the text and before
\* every line terminator; the trailing \s* is greedy and gives back
CloseMatchAt(s, i) ==
  LET j == SkipWS(s, i)
      p == j + 3
      q == SkipWS(s, p)
      r == LastNL(s, p, q)
  IN IF Lit(s, j, "}") /\ Lit(s, j + 1, ")") /\ Lit(s, j + 2, ";")
     THEN IF q > Len(s) THEN [ok |-> TRUE, start |-> i, end |-> q]
          ELSE IF r # 0 THEN [ok |-> TRUE, start |-> i, end |-> r]
          ELSE NoMatch
     ELSE NoMatch

CloseReplacement == <<NL, SP, SP, SP, SP, "}", NL, SP, SP, "}">>

\* the leftmost match that starts at pos or later
NextCloseMatch(s, pos) ==
  LET starts == {i \in pos..Len(s) : CloseMatchAt(s, i).ok} IN
  IF starts = {} THEN NoMatch ELSE CloseMatchAt(s, Min(starts))

\* re.sub: leftmost match from pos on, the text before it kept, then on from its end
RECURSIVE SubClose(_, _)
SubClose(s, pos) ==
  LET m == NextCloseMatch(s, pos) IN
  IF m.ok THEN Slice(s, pos, m.start - 1) \o CloseReplacement \o SubClose(s, m.end)
  ELSE Slice(s, pos, Len(s))

convert_method(s) == SubClose(SubSignature(s, 1), 1)

----------------------------------------------------------------------------
(* convert_validation_patterns                                             *)

\* @Validate\(\{[^}]*\}\)\s*\n
DecoratorMatchAt(s, i) ==
  LET c == SkipTo(s, i + 3, "}")
      q == SkipWS(s, c + 2)
      r == LastNL(s, c + 2, q)
  IN IF /\ Lit(s, i, "@Validate") /\ Lit(s, i + 1, "(") /\ Lit(s, i + 2, "{")
        /\ Lit(s, c, "}") /\ Lit(s, c + 1, ")")
        /\ r # 0
     THEN [ok |-> TRUE, start |-> i, end |-> r + 1]
     ELSE NoMatch

\* the leftmost match that starts at pos or later
NextDecoratorMatch(s, pos) ==
  LET starts == {i \in pos..Len(s) : DecoratorMatchAt(s, i).ok} IN
  IF starts = {} THEN NoMatch ELSE DecoratorMatchAt(s, Min(starts))

\* re.sub: leftmost match from pos on, the text before it kept, then on from its end
RECURSIVE SubDecorator(_, _)
SubDecorator(s, pos) ==
  LET m == NextDecoratorMatch(s, pos) IN
  IF m.ok THEN Slice(s, pos, m.start - 1) \o <<>> \o SubDecorator(s, m.end)
  ELSE Slice(s, pos, Len(s))

\* const validation = this\.validateRequest\([^;]*;\s*if \(!validation\.isValid\) \{[^}]*\}\s*
\* open is the index of the brace that opens the conditional's block, close
\* the index of the brace the match ends its block at
ValidationMatchAt(s, i) ==
  LET c == SkipTo(s, i + 2, ";")
      h == SkipWS(s, c + 1)
      b == SkipTo(s, h + 7, "}")
  IN IF /\ Lit(s, i, "const validation = this.validateRequest") /\ Lit(s, i + 1, "(")
        /\ Lit(s, c, ";")
        /\ Lit(s, h, "if") /\ Lit(s, h + 1, SP) /\ Lit(s, h + 2, "(")
        /\ Lit(s, h + 3, "!validation.isValid") /\ Lit(s, h + 4, ")")
        /\ Lit(s, h + 5, SP) /\ Lit(s, h + 6, "{")
        /\ Lit(s, b, "}")
     THEN [ok |-> TRUE, start |-> i, end |-> SkipWS(s, b + 1), open |-> h + 6, close |-> b]
     ELSE NoMatch

\* the leftmost match that starts at pos or later
NextValidationMatch(s, pos) ==
  LET starts == {i \in pos..Len(s) : ValidationMatchAt(s, i).ok} IN
  IF starts = {} THEN NoMatch ELSE ValidationMatchAt(s, Min(starts))

\* re.sub: leftmost match from pos on, the text before it kept, then on from its end
RECURSIVE SubValidation(_, _)
SubValidation(s, pos) ==
  LET m == NextValidationMatch(s, pos) IN
  IF m.ok THEN Slice(s, pos, m.start - 1) \o <<>> \o SubValidation(s, m.end)
  ELSE Slice(s, pos, Len(s))

convert_validation_patterns(s) == SubValidation(SubDecorator(s, 1), 1)

----------------------------------------------------------------------------
(* fix_try_blocks and its pattern                                          *)

\* \s*\}\s*\} at e: the index after the match, 0 if none
BodyTail(s, e) ==
  LET q == SkipWS(s, e)
      q2 == SkipWS(s, q + 1)
  IN IF Lit(s, q, "}") /\ Lit(s, q2, "}") THEN q2 + 1 ELSE 0

\* (.*?) with DOTALL followed by the tail: the least e at which the tail matches
LazyBody(s, p) ==
  LET ends == {e \in p..Len(s) : BodyTail(s, e) # 0} IN
  IF ends = {} THEN 0 ELSE Min(ends)

\* (\s*)(async \w+\([^)]*\): Promise<void>)\s*\{\s*try\s*\{(.*?)\s*\}\s*\}
FixMatchAt(s, i) ==
  LET j == SkipWS(s, i)
      k == SkipWord(s, j + 2)
      c == SkipTo(s, k + 1, ")")
      p == SkipWS(s, c + 4)
      t == SkipWS(s, p + 1)
      u == SkipWS(s, t + 1)
      e == LazyBody(s, u + 1)
  IN IF /\ Lit(s, j, "async") /\ Lit(s, j + 1, SP)
        /\ k > j + 2
        /\ Lit(s, k, "(")
        /\ Lit(s, c, ")") /\ Lit(s, c + 1, ":") /\ Lit(s, c + 2, SP)
        /\ Lit(s, c + 3, "Promise<void>")
        /\ Lit(s, p, "{") /\ Lit(s, t, "try") /\ Lit(s, u, "{")
        /\ e # 0
     THEN [ok |-> TRUE, start |-> i, end |-> BodyTail(s, e),
           indent |-> Slice(s, i, j - 1), method_signature |-> Slice(s, j, c + 3),
           method_body |-> Slice(s, u + 1, e - 1), decl_open |-> p, try_open |-> u]
     ELSE NoMatch

\* re.search(r'(\s*this\.logRequest[^;]*;)', method_body): leftmost match
LogMatchAt(b, i) ==
  LET j == SkipWS(b, i)
      c == SkipTo(b, j + 1, ";")
  IN IF Lit(b, j, "this.logRequest") /\ Lit(b, c, ";")
     THEN [ok |-> TRUE, start |-> i, end |-> c + 1]
     ELSE NoMatch

LogSearch(b) ==
  LET starts == {i \in 1..Len(b) : LogMatchAt(b, i).ok} IN
  IF starts = {} THEN NoMatch ELSE LogMatchAt(b, Min(starts))

IsAt(b, pos, w) == pos + Len(w) - 1 <= Len(b) /\ SubSeq(b, pos, pos + Len(w) - 1) = w

\* str.replace(w, ''): every non-overlapping occurrence of w, left to right
RECURSIVE RemoveAll(_, _, _)
RemoveAll(b, w, pos) ==
  LET at == {i \in pos..Len(b) : IsAt(b, i, w)} IN
  IF at = {} THEN Slice(b, pos, Len(b))
  ELSE Slice(b, pos, Min(at) - 1) \o RemoveAll(b, w, Min(at) + Len(w))

\* str.strip() of a log statement: it ends in ';', so only leading whitespace goes
Strip(w) == Slice(w, SkipWS(w, 1), Len(w))

Contains(b, t) == \E n \in 1..Len(b) : b[n] = t

MoveLog(indent, method_body) ==
  IF Contains(method_body, "this.logRequest")
  THEN LET log_match == LogSearch(method_body) IN
       IF log_match.ok
       THEN LET log_statement == Slice(method_body, log_match.start, log_match.end - 1) IN
            <<NL>> \o indent \o Spaces(4) \o Strip(log_statement) \o <<NL>>
              \o RemoveAll(method_body, log_statement, 1)
       ELSE method_body
  ELSE method_body

fix_try_blocks(match) ==
  match.indent \o match.method_signature \o <<SP, "{", NL>>
    \o match.indent \o <<SP, SP, "try", SP, "{">> \o MoveLog(match.indent, match.method_body)
    \o <<NL>> \o match.indent \o <<SP, SP, "}", NL>> \o match.indent \o <<"}">>

\* the leftmost match that starts at pos or later
NextFixMatch(s, pos) ==
  LET starts == {i \in pos..Len(s) : FixMatchAt(s, i).ok} IN
  IF starts = {} THEN NoMatch ELSE FixMatchAt(s, Min(starts))

\* re.sub: leftmost match from pos on, the text before it kept, then on from its end
RECURSIVE SubFix(_, _)
SubFix(s, pos) ==
  LET m == NextFixMatch(s, pos) IN
  IF m.ok THEN Slice(s, pos, m.start - 1) \o fix_try_blocks(m) \o SubFix(s, m.end)
  ELSE Slice(s, pos, Len(s))

ApplyFix(s) == SubFix(s, 1)

Pipeline(s) == ApplyFix(convert_validation_patterns(convert_method(s)))

----------------------------------------------------------------------------
(* Source texts of the controller files                                    *)

MaxStmts == 2
MaxLines == 2
MaxRuns == 2

RECURSIVE Flatten(_)
Flatten(ls) == IF ls = <<>> THEN <<>> ELSE Head(ls) \o Flatten(Tail(ls))

RECURSIVE SeqsUpTo(_, _)
SeqsUpTo(S, n) ==
  IF n = 0 THEN {<<>>}
  ELSE LET R == SeqsUpTo(S, n - 1) IN R \cup {Append(r, x) : r \in {q \in R : Len(q) = n - 1}, x \in S}

CallStmt == <<"f", "(", ")", ";">>
LogStmt == <<"this.logRequest", "(", "req", ")", ";">>
CheckHead == <<"const validation = this.validateRequest", "(", "req", ")", ";", SP,
               "if", SP, "(", "!validation.isValid", ")", SP, "{">>
ValSimpleStmt == CheckHead \o <<SP, "return", ";", SP, "}">>
ValNestedStmt == CheckHead \o <<SP, "res.json", "(", "{", SP, "e", SP, "}", ")", ";", SP,
                                "return", ";", SP, "}">>
JsonStmt == <<"res.json", "(", "{", SP, "a", SP, "}", ")", ";">>
NestedStmt == <<"if", SP, "(", "x", ")", SP, "{", SP, "if", SP, "(", "y", ")", SP, "{", SP,
                "g", "(", ")", ";", SP, "}", SP, "}">>

BodyStmts == {CallStmt, LogStmt, ValSimpleStmt, ValNestedStmt, JsonStmt, NestedStmt}

Line(k, stmt) == Spaces(k) \o stmt \o <<NL>>

Lines(k, stmts) == Flatten([n \in 1..Len(stmts) |-> Line(k, stmts[n])])

Comment == <<SP, "//", SP, "end">>

\* name = this.asyncHandler(async (params): Promise<void> => { body });
LegacyMethod(k, name, params, stmts, trailer) ==
  Spaces(k) \o <<name, SP, "=", SP, "this.asyncHandler", "(", "async", SP, "(">> \o params
    \o <<")", ":", SP, "Promise<void>", SP, "=>", SP, "{", NL>>
    \o Lines(k + 2, stmts)
    \o Spaces(k) \o <<"}", ")", ";">> \o trailer \o <<NL>>

DecoratorLine(k) == Spaces(k) \o <<"@Validate", "(", "{", SP, "body", ":", SP, "S", SP, "}", ")", NL>>

Indents == {0, 2}

Bodies == SeqsUpTo(BodyStmts, MaxStmts)

\* one legacy method, or two adjacent ones; the first may carry a decorator
\* and a comment after its closing line, the file may wrap them in a class
LegacyFiles ==
  { (IF wrap THEN <<"class", SP, "A", SP, "{", NL>> ELSE <<>>)
      \o (IF deco THEN DecoratorLine(k) ELSE <<>>)
      \o LegacyMethod(k, "a", <<"req">>, body, IF shape = "comment" THEN Comment ELSE <<>>)
      \o (IF shape = "one" THEN <<>>
          ELSE <<NL>> \o LegacyMethod(k, "b", <<"req", ",", SP, "res">>, <<CallStmt>>, <<>>))
      \o (IF wrap THEN <<"}", NL>> ELSE <<>>)
    : k \in Indents, body \in Bodies, wrap \in BOOLEAN, deco \in BOOLEAN,
      shape \in {"one", "two", "comment"} }

\* lines in which none of the recognized patterns occurs
PlainLines ==
  { CallStmt,
    <<"o", SP, "=", SP, "{", "}", ";">>,
    <<"f", "(", "{", SP, "a", SP, "}", ")", ";", SP, "//", SP, "end">>,
    <<"async", SP, "a", "(", "req", ")", ":", SP, "Promise<void>", SP, "{", SP, "f", "(", ")", ";", SP, "}">>,
    <<"a", SP, "=", SP, "async", SP, "(", "req", ")", ":", SP, "Promise<void>", SP, "=>", SP, "{", "}", ";">>,
    <<"if", SP, "(", "!validation.isValid", ")", SP, "{", SP, "return", ";", SP, "}">>,
    <<"try", SP, "{", SP, "f", "(", ")", ";", SP, "}", SP, "}">> }

PlainFiles == { Lines(k, ls) : k \in Indents, ls \in SeqsUpTo(PlainLines, MaxLines) }

Inputs == LegacyFiles \cup PlainFiles

----------------------------------------------------------------------------
(* main and process_file                                                   *)

controller_files ==
  << "src/controllers/chat/ChatController.modern.ts",
     "src/controllers/provider/ProviderController.modern.ts",
     "src/controllers/request/RequestController.modern.ts",
     "src/controllers/review/ReviewController.modern.ts",
     "src/controllers/user/UserController.modern.ts" >>

NumFiles == Len(controller_files)

Paths == {controller_files[n] : n \in 1..NumFiles}

Absent == [exists |-> FALSE, data |-> <<>>]

File(x) == [exists |-> TRUE, data |-> x]

filepath == controller_files[idx]

\* the state main starts in: nothing visited, nothing reported
Start ==
  /\ pc = "main"
  /\ idx = 1
  /\ content = <<>>
  /\ original_content = <<>>
  /\ updated_files = <<>>
  /\ out = <<>>
  /\ opened = <<>>

\* one controller file on disk, holding any of the source texts
Init ==
  /\ \E x \in Inputs :
       fs = [p \in Paths |-> IF p = controller_files[1] THEN File(x) ELSE Absent]
  /\ run = 1
  /\ Start

\* a missing file that ends the loop instead of moving on to the next path
FileNotFoundBreak ==
  /\ pc = "main"
  /\ idx <= NumFiles
  /\ ~fs[filepath].exists
  /\ out' = Append(out, <<"File not found", filepath>>)
  /\ idx' = NumFiles + 1
  /\ UNCHANGED <<fs, run, pc, content, original_content, updated_files, opened>>

\* os.path.exists(filepath) is false: the warning, then the next path
FileNotFound ==
  /\ pc = "main"
  /\ idx <= NumFiles
  /\ ~fs[filepath].exists
  /\ out' = Append(out, <<"File not found", filepath>>)
  /\ idx' = idx + 1
  /\ UNCHANGED <<fs, run, pc, content, original_content, updated_files, opened>>

\* process_file up to original_content = content
ReadFile ==
  /\ pc = "main"
  /\ idx <= NumFiles
  /\ fs[filepath].exists
  /\ out' = Append(out, <<"Processing", filepath>>)
  /\ opened' = Append(opened, <<filepath, "r">>)
  /\ content' = fs[filepath].data
  /\ original_content' = fs[filepath].data
  /\ pc' = "convert_method"
  /\ UNCHANGED <<fs, run, idx, updated_files>>

ConvertMethod ==
  /\ pc = "convert_method"
  /\ content' = convert_method(content)
  /\ pc' = "convert_validation_patterns"
  /\ UNCHANGED <<fs, run, idx, original_content, updated_files, out, opened>>

ConvertValidation ==
  /\ pc = "convert_validation_patterns"
  /\ content' = convert_validation_patterns(content)
  /\ pc' = "fix_try_blocks"
  /\ UNCHANGED <<fs, run, idx, original_content, updated_files, out, opened>>

FixTryBlocks ==
  /\ pc = "fix_try_blocks"
  /\ content' = ApplyFix(content)
  /\ pc' = "compare"
  /\ UNCHANGED <<fs, run, idx, original_content, updated_files, out, opened>>

\* content != original_content: written back, True returned, main appends
Persist ==
  /\ pc = "compare"
  /\ content # original_content
  /\ opened' = Append(opened, <<filepath, "w">>)
  /\ fs' = [fs EXCEPT ![filepath] = File(content)]
  /\ out' = Append(out, <<"Updated", filepath>>)
  /\ updated_files' = Append(updated_files, filepath)
  /\ idx' = idx + 1
  /\ pc' = "main"
  /\ UNCHANGED <<run, content, original_content>>

\* an unchanged file that is reported as updated all the same
SkipListed ==
  /\ pc = "compare"
  /\ content = original_content
  /\ out' = Append(out, <<"No changes needed", filepath>>)
  /\ updated_files' = Append(updated_files, filepath)
  /\ idx' = idx + 1
  /\ pc' = "main"
  /\ UNCHANGED <<fs, run, content, original_content, opened>>

\* content == original_content: nothing written, False returned
Skip ==
  /\ pc = "compare"
  /\ content = original_content
  /\ out' = Append(out, <<"No changes needed", filepath>>)
  /\ idx' = idx + 1
  /\ pc' = "main"
  /\ UNCHANGED <<fs, run, content, original_content, updated_files, opened>>

\* after the loop: the list of updated files, or the notice that there is none
Summary ==
  /\ pc = "main"
  /\ idx > NumFiles
  /\ out' = Append(out, IF updated_files # <<>>
                        THEN <<"Successfully updated", updated_files>>
                        ELSE <<"No files were updated", <<>>>>)
  /\ pc' = "done"
  /\ UNCHANGED <<fs, run, idx, content, original_content, updated_files, opened>>

\* the script is run again over the files the previous run left on disk
Rerun ==
  /\ pc = "done"
  /\ run < MaxRuns
  /\ run' = run + 1
  /\ pc' = "main"
  /\ idx' = 1
  /\ content' = <<>>
  /\ original_content' = <<>>
  /\ updated_files' = <<>>
  /\ out' = <<>>
  /\ opened' = <<>>
  /\ UNCHANGED fs

Next ==
  \/ FileNotFound
  \/ ReadFile
  \/ ConvertMethod
  \/ ConvertValidation
  \/ FixTryBlocks
  \/ Persist
  \/ Skip
  \/ Summary
  \/ Rerun

Spec == Init /\ [][Next]_vars

\* texts for the runs over several files: one without any pattern, one legacy
\* method the pipeline converts for good, one it changes again on every run
MainInputs ==
  { Lines(0, <<CallStmt>>),
    LegacyMethod(0, "a", <<"req">>, <<CallStmt>>, <<>>),
    LegacyMethod(0, "a", <<"req">>, <<LogStmt>>, <<>>) }

\* every configured path is absent or holds one of the texts
InitMain ==
  /\ fs \in [Paths -> {Absent} \cup {File(x) : x \in MainInputs}]
  /\ run = 1
  /\ Start

SpecMain == InitMain /\ [][Next]_vars

----------------------------------------------------------------------------
(* Notions the properties are stated with                                  *)

Count(s, t) == Cardinality({n \in 1..Len(s) : s[n] = t})

\* the n-th smallest element of a set of numbers
Nth(S, n) == CHOOSE x \in S : Cardinality({y \in S : y < x}) = n - 1

\* the index a line starts at: after the last line terminator before j
LineStart(s, j) ==
  LET nls == {n \in 1..(j - 1) : s[n] = NL} IN
  IF nls = {} THEN 1 ELSE (CHOOSE x \in nls : \A y \in nls : y <= x) + 1

\* only spaces between the start of the line and j
OwnLine(s, j) == \A n \in LineStart(s, j)..(j - 1) : s[n] = SP

\* braces opened minus braces closed over lo..hi
Depth(s, lo, hi) ==
  Cardinality({n \in lo..hi : s[n] = "{"}) - Cardinality({n \in lo..hi : s[n] = "}"})

\* the brace that balances the opening brace at o, 0 if there is none
BalancedClose(s, o) ==
  LET cs == {c \in (o + 1)..Len(s) : s[c] = "}" /\ Depth(s, o, c) = 0} IN
  IF cs = {} THEN 0 ELSE Min(cs)

\* a declaration in the modern style starts at d: async name(
DeclAt(s, d) ==
  /\ Lit(s, d, "async") /\ Lit(s, d + 1, SP)
  /\ d + 2 <= Len(s) /\ IsWord(s[d + 2])
  /\ Lit(s, d + 3, "(")

Decls(s) == {d \in 1..Len(s) : DeclAt(s, d)}

\* the text of the method declared at d: up to the next declaration
MethodText(s, d) == Slice(s, d, Min({e \in Decls(s) : e > d} \cup {Len(s) + 1}) - 1)

\* the starts of the matches a substitution replaces, left to right
RECURSIVE SigStarts(_, _)
SigStarts(s, pos) ==
  LET m == NextSigMatch(s, pos) IN
  IF m.ok THEN {m.start} \cup SigStarts(s, m.end) ELSE {}

RECURSIVE CloseStarts(_, _)
CloseStarts(s, pos) ==
  LET m == NextCloseMatch(s, pos) IN
  IF m.ok THEN {m.start} \cup CloseStarts(s, m.end) ELSE {}

RECURSIVE ValidationStarts(_, _)
ValidationStarts(s, pos) ==
  LET m == NextValidationMatch(s, pos) IN
  IF m.ok THEN {m.start} \cup ValidationStarts(s, m.end) ELSE {}

RECURSIVE FixStarts(_, _)
FixStarts(s, pos) ==
  LET m == NextFixMatch(s, pos) IN
  IF m.ok THEN {m.start} \cup FixStarts(s, m.end) ELSE {}

Said(kind, p) == \E n \in 1..Len(out) : out[n] = <<kind, p>>

InSeq(x, seq) == \E n \in 1..Len(seq) : seq[n] = x

----------------------------------------------------------------------------
(* Properties                                                              *)

\* C1: idempotence of the pipeline.  A later run finds every file as the
\* previous run left it, so each file it processes comes out of the three
\* stages unchanged, nothing is written and no file is listed as updated.
C1_Idempotent ==
  run >= 2 =>
    /\ pc = "compare" => content = original_content
    /\ updated_files = <<>>
    /\ \A n \in 1..Len(opened) : opened[n][2] # "w"

\* C8: every inline validation check convert_validation_patterns removes ends
\* at the brace that balances the opening brace of if (!validation.isValid) {,
\* also when the conditional's block holds braces of its own.
C8_CheckRemovedToBalancedClose ==
  pc = "convert_validation_patterns" =>
    LET s == SubDecorator(content, 1) IN
    \A i \in ValidationStarts(s, 1) :
      LET m == ValidationMatchAt(s, i) IN
      /\ s[m.start] = "const validation = this.validateRequest"
      /\ m.close = BalancedClose(s, m.open)
      /\ m.end = SkipWS(s, BalancedClose(s, m.open) + 1)

\* C9: convert_method rewrites }); into the two closing braces only on a line
\* that holds nothing but whitespace before it, so it rewrites as many closing
\* lines as the signature pattern rewrites declarations.
C9_CloseOnlyOnOwnLine ==
  pc = "convert_method" =>
    LET s == SubSignature(content, 1) IN
    /\ \A i \in CloseStarts(s, 1) : OwnLine(s, SkipWS(s, i))
    /\ Cardinality(CloseStarts(s, 1)) = Cardinality(SigStarts(content, 1))

\* C10: the body the reconstruction pattern captures runs from the opening
\* try { to the pair of braces that close that try block and the declaration,
\* also when the body holds nested blocks whose closing braces are adjacent.
C10_BodyRunsToOwnClose ==
  pc = "fix_try_blocks" =>
    \A i \in FixStarts(content, 1) :
      LET m == FixMatchAt(content, i) IN
      /\ SkipWS(content, m.try_open + 1 + Len(m.method_body)) = BalancedClose(content, m.try_open)
      /\ m.end - 1 = BalancedClose(content, m.decl_open)

\* the declarations a span of text holds, legacy or already rewritten
Headers(s, lo, hi) ==
  {n \in lo..hi : s[n] = "this.asyncHandler" \/ DeclAt(s, n)}

\* C2: span containment.  In a file with two adjacent legacy methods no match
\* of the signature pattern, of the validation-check pattern or of the
\* body-reconstruction pattern covers text of both methods, and in the result
\* each method has its own try block, closed before the next method starts.
C2_SpanContainment ==
  (run = 1 /\ Count(original_content, "this.asyncHandler") = 2) =>
    /\ pc = "convert_method" =>
         \A i \in SigStarts(content, 1) :
           Cardinality(Headers(content, i, SigMatchAt(content, i).end - 1)) = 1
    /\ pc = "convert_validation_patterns" =>
         LET s == SubDecorator(content, 1) IN
         \A i \in ValidationStarts(s, 1) :
           Headers(s, i, ValidationMatchAt(s, i).end - 1) = {}
    /\ pc = "fix_try_blocks" =>
         \A i \in FixStarts(content, 1) :
           Cardinality(Headers(content, i, FixMatchAt(content, i).end - 1)) = 1
    /\ pc = "compare" =>
         /\ Cardinality(Decls(content)) = 2
         /\ \A d \in Decls(content) :
              LET text == MethodText(content, d) IN
              /\ \E u \in 1..Len(text) : text[u] = "try"
              /\ \E e \in 1..Len(text) : BodyTail(text, e) # 0

\* a logging statement in the text of a method, after the opening of its try block
HasLogStatement(text) ==
  \E u, n, c \in 1..Len(text) :
    /\ u < n /\ n < c
    /\ text[u] = "try" /\ text[n] = "this.logRequest" /\ text[c] = ";"

\* the logging statement is the first statement of the try block and occurs once
LogFirstOnce(text) ==
  LET u == SkipTo(text, 1, "try")
      o == SkipWS(text, u + 1)
      f == SkipWS(text, o + 1)
  IN /\ Lit(text, o, "{")
     /\ Lit(text, f, "this.logRequest")
     /\ Count(text, "this.logRequest") = 1

\* C3: log relocation.  For every method the body-reconstruction stage matches
\* whose body holds a this.logRequest(...) statement, the reconstructed method
\* holds that statement once, as the first statement of its try block.
C3_LogRelocated ==
  [][ pc = "fix_try_blocks" =>
        /\ Cardinality(Decls(content')) = Cardinality(Decls(content))
        /\ \A n \in 1..Cardinality(Decls(content)) :
             LET d == Nth(Decls(content), n) IN
             ( /\ \E i \in FixStarts(content, 1) : SkipWS(content, i) = d
               /\ HasLogStatement(MethodText(content, d)) )
             => LogFirstOnce(MethodText(content', Nth(Decls(content'), n))) ]_vars

\* the indentation of the n-th legacy declaration of a text: the spaces
\* between the start of its line and its name
OrigIndent(s, n) ==
  LET h == Nth({j \in 1..Len(s) : s[j] = "this.asyncHandler"}, n) IN
  (h - 4) - LineStart(s, h - 4)

\* C4: indentation preservation.  For a legacy method declared at k spaces the
\* indentation the rewrite captures and inserts is k spaces and nothing else:
\* the declaration line and the closing brace of the method are at k, the
\* try line and its closing brace at k + 2.
C4_IndentationPreserved ==
  (run = 1 /\ Contains(original_content, "this.asyncHandler")) =>
    /\ pc = "convert_method" =>
         \A n \in 1..Cardinality(SigStarts(content, 1)) :
           SigMatchAt(content, Nth(SigStarts(content, 1), n)).indent
             = Spaces(OrigIndent(original_content, n))
    /\ pc = "fix_try_blocks" =>
         \A n \in 1..Cardinality(FixStarts(content, 1)) :
           FixMatchAt(content, Nth(FixStarts(content, 1), n)).indent
             = Spaces(OrigIndent(original_content, n))
    /\ pc = "compare" =>
         \A n \in 1..Cardinality(Decls(content)) :
           LET d == Nth(Decls(content), n)
               k == OrigIndent(original_content, n)
               o == SkipTo(content, d, "{")
               u == SkipTo(content, d, "try")
           IN /\ Slice(content, LineStart(content, d), d - 1) = Spaces(k)
              /\ Slice(content, o + 1, u - 1) = <<NL>> \o Spaces(k + 2)

\* none of the recognized patterns occurs in s: no asyncHandler-wrapped
\* declaration, no }); that ends a line, no @Validate({ annotation, no
\* validateRequest check, no declaration that opens a try block
NoPattern(s) ==
  /\ ~Contains(s, "this.asyncHandler")
  /\ ~\E j \in 1..Len(s) :
        /\ Lit(s, j, "}") /\ Lit(s, j + 1, ")") /\ Lit(s, j + 2, ";")
        /\ LET q == SkipWS(s, j + 3) IN q > Len(s) \/ \E n \in (j + 3)..(q - 1) : s[n] = NL
  /\ ~\E j \in 1..Len(s) : Lit(s, j, "@Validate") /\ Lit(s, j + 1, "(") /\ Lit(s, j + 2, "{")
  /\ ~Contains(s, "const validation = this.validateRequest")
  /\ ~\E j \in 1..Len(s) :
        /\ Lit(s, j, "Promise<void>")
        /\ LET o == SkipWS(s, j + 1) IN Lit(s, o, "{") /\ Lit(s, SkipWS(s, o + 1), "try")

\* C5: no-op safety.  While process_file works on a text in which none of the
\* recognized patterns occurs, every stage returns the text as it was read, the
\* file is not written, it is not listed as updated and 'No changes needed' is
\* what the comparison reports.
C5_NoOpSafety ==
  [][ ( /\ pc \in {"convert_method", "convert_validation_patterns", "fix_try_blocks", "compare"}
        /\ NoPattern(original_content) )
      => /\ content' = original_content
         /\ fs' = fs
         /\ opened' = opened
         /\ updated_files' = updated_files
         /\ pc = "compare" => out' = Append(out, <<"No changes needed", filepath>>) ]_vars

\* a pattern-free text that holds near misses of the patterns went through
\* process_file and was reported as unchanged
C5_Witness ==
  /\ pc = "main" /\ idx = 2 /\ run = 1
  /\ NoPattern(original_content)
  /\ Contains(original_content, "Promise<void>")
  /\ Contains(original_content, "//")
  /\ content = original_content
  /\ Said("No changes needed", controller_files[1])

\* the paths the loop of main has finished with
NumVisited == IF pc \in {"main", "done"} THEN idx - 1 ELSE idx

IsVisit(msg) == msg[1] \in {"File not found", "Processing"}

IsSummary(msg) == msg[1] \in {"Successfully updated", "No files were updated"}

\* C6: missing-file handling.  The configured paths are visited in list order,
\* none left out; a path that does not exist gets the 'File not found' warning,
\* is neither read nor written nor listed as updated, and the run goes on over
\* the later paths until it reports the final summary with all paths visited.
C6_MissingFileSkipped ==
  LET visits == SelectSeq(out, IsVisit) IN
  /\ Len(visits) = NumVisited
  /\ \A n \in 1..Len(visits) : visits[n][2] = controller_files[n]
  /\ \A n \in 1..Len(visits) :
       ~fs[controller_files[n]].exists =>
         /\ visits[n][1] = "File not found"
         /\ ~InSeq(<<controller_files[n], "r">>, opened)
         /\ ~InSeq(<<controller_files[n], "w">>, opened)
         /\ ~InSeq(controller_files[n], updated_files)
  /\ pc = "done" => Len(visits) = NumFiles /\ IsSummary(out[Len(out)])
  /\ pc # "done" => idx <= NumFiles \/ pc = "main"

\* a run that met a missing path first, went on, updated a later file and
\* reached the summary
C6_Witness ==
  /\ pc = "done"
  /\ ~fs[controller_files[1]].exists
  /\ Said("File not found", controller_files[1])
  /\ ~fs[controller_files[3]].exists
  /\ Said("Updated", controller_files[2])
  /\ Said("No changes needed", controller_files[4])

\* C7: write-back only on difference.  Every existing configured file ends
\* process_file either Persisted (output differs from the content read: file
\* overwritten with the output, 'Updated' reported) or Skipped (output equal:
\* file not opened for writing, 'No changes needed' reported), never both; the
\* files listed as updated, and named in the final summary, are exactly the
\* Persisted ones.
C7_WriteBackOnlyOnDifference ==
  \A n \in 1..NumFiles :
    LET p == controller_files[n]
        Persisted == Said("Updated", p)
        Skipped == Said("No changes needed", p)
    IN /\ (n < idx /\ fs[p].exists) => (Persisted # Skipped)
       /\ (n >= idx \/ ~fs[p].exists) => (~Persisted /\ ~Skipped)
       /\ Persisted <=> InSeq(<<p, "w">>, opened)
       /\ Persisted <=> InSeq(p, updated_files)
       /\ (pc = "main" /\ n = idx - 1 /\ fs[p].exists) =>
            /\ Persisted <=> content # original_content
            /\ fs[p].data = content
       /\ pc = "done" =>
            /\ IsSummary(out[Len(out)])
            /\ Persisted <=> InSeq(p, out[Len(out)][2])

\* one run that persisted one file and skipped another
C7_Witness ==
  /\ pc = "done"
  /\ \E p, q \in Paths :
       /\ Said("Updated", p) /\ InSeq(<<p, "w">>, opened) /\ InSeq(p, updated_files)
       /\ Said("No changes needed", q) /\ ~InSeq(<<q, "w">>, opened) /\ ~InSeq(q, updated_files)

====
